---- MODULE Spec2Model ----
(***************************************************************************)
(* Model of the Pennyboy currency bot (src/src/bot.py, models/user.py):    *)
(* the users table, the three slash commands daily, balance and roll, each *)
(* running in its own AsyncSession, and the suspension points (await) at   *)
(* which the event loop may interleave them.                               *)
(***************************************************************************)
EXTENDS Integers, Sequences, FiniteSets, TLC

\* ---------------------------------------------------------------- bounds
MaxDays == 1          \* the clock covers days 0..MaxDays
MaxReward == 1        \* DAILY_REWARD is configured in 0..MaxReward
MaxBalance == 4       \* a winning roll is explored only up to this balance
MaxCommands == 3      \* commands started in a sequential run
MaxOverlap == 3       \* commands started in an interleaved run

\* ------------------------------------------------------- program constants
DAY == 86400          \* timedelta(days=1), in seconds
HOUR == 3600
MINUTE == 60
DieMin == 1
DieMax == 6
None == -1            \* NULL last_daily

Tasks == {1, 2}              \* command invocations the event loop runs
UserIds == {7, 10}           \* interaction.user.id values
Offsets == {59, 60, DAY - 60}
TimePoints == {d * DAY + o : d \in 0..MaxDays, o \in Offsets}

Amounts ==
  { <<"a","l","l">>, <<"A","L","L">>, <<"a","b">>, <<>>, <<"0">>,
    <<"-","1">>, <<"1">>, <<" ","2">>, <<"+","3">> }

VARIABLES db, clock, DAILY_REWARD, pc, sess, granted, started

vars == <<db, clock, DAILY_REWARD, pc, sess, granted, started>>

\* ---------------------------------------------------------------- helpers
Digits == <<"0","1","2","3","4","5","6","7","8","9">>

RECURSIVE str(_)
str(n) == IF n < 10 THEN <<Digits[n + 1]>>
          ELSE str(n \div 10) \o <<Digits[(n % 10) + 1]>>

LowerChar(c) == IF c = "A" THEN "a" ELSE IF c = "L" THEN "l"
                ELSE IF c = "B" THEN "b" ELSE c
lower(s) == [k \in 1..Len(s) |-> LowerChar(s[k])]

IsDigit(c) == \E k \in 1..10 : Digits[k] = c
DigitVal(c) == (CHOOSE k \in 1..10 : Digits[k] = c) - 1

RECURSIVE strip(_)
strip(s) == IF s = <<>> THEN s
            ELSE IF Head(s) = " " THEN strip(Tail(s))
            ELSE IF s[Len(s)] = " " THEN strip(SubSeq(s, 1, Len(s) - 1))
            ELSE s

RECURSIVE DigitsVal(_)
DigitsVal(s) == IF s = <<>> THEN 0
                ELSE 10 * DigitsVal(SubSeq(s, 1, Len(s) - 1)) + DigitVal(s[Len(s)])

\* int(amount): surrounding blanks stripped, optional sign, decimal digits
Unsigned(s) == IF s # <<>> /\ Head(s) \in {"+", "-"} THEN Tail(s) ELSE s
IntOk(s) == LET b == Unsigned(strip(s))
            IN  b # <<>> /\ \A k \in 1..Len(b) : IsDigit(b[k])
int(s) == LET t == strip(s)
          IN  IF Head(t) = "-" THEN 0 - DigitsVal(Unsigned(t))
              ELSE DigitsVal(Unsigned(t))

\* days rounded up instead of down
daysCeil(delta) == (delta + DAY - 1) \div DAY

\* timedelta normalisation: days is the floor, 0 <= seconds < 86400
days(delta) == delta \div DAY
seconds(delta) == delta % DAY

\* ------------------------------------------------------------ the table
User(uid) == [user_id |-> uid, balance |-> 0, last_daily |-> None,
              total_earned |-> 0]

Rows(table, uid) == SelectSeq(table, LAMBDA r : r.user_id = uid)
Exists(table, uid) == Rows(table, uid) # <<>>
Row(table, uid) == Rows(table, uid)[1]

NoMsg == [kind |-> "none", amount |-> 0, balance |-> 0, hours |-> 0, minutes |-> 0]

IdleSess == [kind |-> "none", uid |-> <<>>, fresh |-> FALSE, pending |-> FALSE,
             loaded |-> User(<<>>), user |-> User(<<>>),
             amount |-> <<>>, bet_amount |-> 0, user_roll |-> 0, bot_roll |-> 0,
             result |-> "none", winnings |-> 0, now |-> 0, msg |-> NoMsg]

AllIdle == \A t \in Tasks : pc[t] = "idle"

Init ==
  /\ db = <<>>
  /\ clock = 0
  /\ DAILY_REWARD \in 0..MaxReward
  /\ pc = [t \in Tasks |-> "idle"]
  /\ sess = [t \in Tasks |-> IdleSess]
  /\ granted = [i \in UserIds |-> 0]
  /\ started = 0

\* the new user is never added to the session
NotAdded(found) == FALSE

\* session.add(user), line 64, is reached exactly when the SELECT found no row
Added(found) == found = <<>>

\* get_user: SELECT by user_id; a missing user is constructed and added
get_user(t, kind, i, amt, next) ==
  LET uid == str(i)
      found == Rows(db, uid)
  IN  /\ pc[t] = "idle"
      /\ IF Len(found) > 1
         THEN /\ pc' = [pc EXCEPT ![t] = "failed"]
              /\ sess' = [sess EXCEPT ![t] = [IdleSess EXCEPT !.kind = kind, !.uid = uid]]
         ELSE /\ pc' = [pc EXCEPT ![t] = next]
              /\ sess' = [sess EXCEPT ![t] =
                   [IdleSess EXCEPT !.kind = kind, !.uid = uid, !.amount = amt,
                      !.fresh = (found = <<>>),
                      !.pending = Added(found),
                      !.loaded = IF found = <<>> THEN User(uid) ELSE found[1],
                      !.user = IF found = <<>> THEN User(uid) ELSE found[1]]]
      /\ started' = started + 1
      /\ UNCHANGED <<db, clock, DAILY_REWARD, granted>>

DailyGetUser(t, i) == get_user(t, "daily", i, <<>>, "fetched")
BalanceGetUser(t, i) == get_user(t, "balance", i, <<>>, "commit")
RollGetUser(t, i, amt) == get_user(t, "roll", i, amt, "fetched")

\* the cooldown still holds at exactly one day
OnCooldownLoose(last_daily, now) == last_daily # None /\ now - last_daily <= DAY

\* the cooldown compares calendar dates
OnCooldownCalendar(last_daily, now) ==
  last_daily # None /\ (now \div DAY) - (last_daily \div DAY) < 1

\* daily, lines 107-122: the cooldown check and the award
OnCooldown(last_daily, now) == last_daily # None /\ days(now - last_daily) < 1

DailyAt(t, now) ==
  LET s == sess[t]
      u == s.user
  IN  /\ clock' = now
      /\ IF OnCooldown(u.last_daily, now)
         THEN LET next_daily == u.last_daily + DAY
                  time_left == next_daily - now
                  hours == seconds(time_left) \div HOUR
                  minutes == (seconds(time_left) % HOUR) \div MINUTE
              IN  /\ sess' = [sess EXCEPT ![t] = [s EXCEPT !.now = now,
                        !.msg = [NoMsg EXCEPT !.kind = "cooldown",
                                   !.hours = hours, !.minutes = minutes]]]
                  /\ pc' = [pc EXCEPT ![t] = "done"]
         ELSE /\ u.balance + DAILY_REWARD <= MaxBalance
              /\ sess' = [sess EXCEPT ![t] = [s EXCEPT !.now = now,
                        !.user = [u EXCEPT !.balance = @ + DAILY_REWARD,
                                           !.total_earned = @ + DAILY_REWARD,
                                           !.last_daily = now]]]
              /\ pc' = [pc EXCEPT ![t] = "commit"]

\* datetime.utcnow() returns a reading no earlier than the previous one
DailyClaim(t) ==
  /\ pc[t] = "fetched" /\ sess[t].kind = "daily"
  /\ \E now \in TimePoints : now >= clock /\ DailyAt(t, now)
  /\ UNCHANGED <<db, DAILY_REWARD, granted, started>>

\* roll, lines 158-174: resolving and validating the stake
IsAll(amount) == lower(amount) = <<"a","l","l">>

\* the funds check left out
ValidateNoFunds(bet_amount, balance) ==
  IF bet_amount <= 0 THEN "nonpositive" ELSE "ok"

\* a zero stake let through
ValidateZero(bet_amount, balance) ==
  IF bet_amount < 0 THEN "nonpositive"
  ELSE IF bet_amount > balance THEN "insufficient"
  ELSE "ok"

Validate(bet_amount, balance) ==
  IF bet_amount <= 0 THEN "nonpositive"
  ELSE IF bet_amount > balance THEN "insufficient"
  ELSE "ok"

\* a win pays twice the stake
OutcomeDouble(user_roll, bot_roll, bet_amount) ==
  IF user_roll > bot_roll
  THEN [result |-> "won", winnings |-> bet_amount, delta |-> 2 * bet_amount]
  ELSE IF user_roll < bot_roll
  THEN [result |-> "lost", winnings |-> 0 - bet_amount, delta |-> 0 - bet_amount]
  ELSE [result |-> "tied", winnings |-> 0, delta |-> 0]

\* roll, lines 180-194: outcome of the two dice
Outcome(user_roll, bot_roll, bet_amount) ==
  IF user_roll > bot_roll
  THEN [result |-> "won", winnings |-> bet_amount, delta |-> bet_amount]
  ELSE IF user_roll < bot_roll
  THEN [result |-> "lost", winnings |-> 0 - bet_amount, delta |-> 0 - bet_amount]
  ELSE [result |-> "tied", winnings |-> 0, delta |-> 0]

\* the return after the error message is missing: the handler goes on to commit
RejectNoReturn(t, kind, bet_amount) ==
  /\ sess' = [sess EXCEPT ![t].bet_amount = bet_amount,
                          ![t].msg = [NoMsg EXCEPT !.kind = kind]]
  /\ pc' = [pc EXCEPT ![t] = "commit"]

\* roll, lines 165-166, 170-171, 173-174: the error message, then return
Reject(t, kind, bet_amount) ==
  /\ sess' = [sess EXCEPT ![t].bet_amount = bet_amount,
                          ![t].msg = [NoMsg EXCEPT !.kind = kind]]
  /\ pc' = [pc EXCEPT ![t] = "done"]

\* winnings also count as earnings
SettleEarned(u, o) ==
  [u EXCEPT !.balance = @ + o.delta,
            !.total_earned = @ + (IF o.delta > 0 THEN o.delta ELSE 0)]

\* roll, lines 184 and 188: the only attribute a bet assigns is balance
Settle(u, o) == [u EXCEPT !.balance = @ + o.delta]

RollBet(t, faces) ==
  LET s == sess[t]
      u == s.user
  IN  /\ pc[t] = "fetched" /\ s.kind = "roll"
      /\ IF ~IsAll(s.amount) /\ ~IntOk(s.amount)
         THEN Reject(t, "invalid", 0)
         ELSE LET bet_amount == IF IsAll(s.amount) THEN u.balance ELSE int(s.amount)
                  check == Validate(bet_amount, u.balance)
              IN  IF check # "ok"
                  THEN Reject(t, check, bet_amount)
                  ELSE \E user_roll \in faces, bot_roll \in faces :
                         LET o == Outcome(user_roll, bot_roll, bet_amount)
                         IN  /\ u.balance + o.delta <= MaxBalance
                             /\ sess' = [sess EXCEPT ![t] = [s EXCEPT
                                  !.bet_amount = bet_amount,
                                  !.user_roll = user_roll, !.bot_roll = bot_roll,
                                  !.result = o.result, !.winnings = o.winnings,
                                  !.user = Settle(u, o)]]
                             /\ pc' = [pc EXCEPT ![t] = "commit"]
      /\ UNCHANGED <<db, clock, DAILY_REWARD, granted, started>>

\* ------------------------------------------------------- session.commit()
Columns == {"balance", "last_daily", "total_earned"}

\* the UPDATE leaves total_earned out
DirtyNoTotal(s) == {c \in {"balance", "last_daily"} : s.user[c] # s.loaded[c]}

\* the UPDATE leaves last_daily out
DirtyNoLastDaily(s) == {c \in {"balance", "total_earned"} : s.user[c] # s.loaded[c]}

\* the unit of work writes only the attributes whose value changed
Dirty(s) == {c \in Columns : s.user[c] # s.loaded[c]}

Insert(table, user) == Append(table, user)

Update(table, uid, user, cols) ==
  [k \in 1..Len(table) |->
     IF table[k].user_id = uid
     THEN [c \in DOMAIN table[k] |-> IF c \in cols THEN user[c] ELSE table[k][c]]
     ELSE table[k]]

\* no uniqueness constraint on user_id
PrimaryKeyOff(table, uid) == TRUE

\* user_id is the primary key: an INSERT of an existing key is refused
PrimaryKeyOk(table, uid) == ~Exists(table, uid)

FlushOk(table, s) ==
  IF s.pending THEN PrimaryKeyOk(table, s.uid)
  ELSE Dirty(s) = {} \/ Exists(table, s.uid)

\* the UPDATE adds the change to the committed balance instead of storing
\* the value computed from the balance that was read
FlushIncrement(table, s) ==
  IF s.pending THEN Insert(table, s.user)
  ELSE IF Dirty(s) = {} \/ ~Exists(table, s.uid) THEN table
  ELSE Update(table, s.uid,
              [s.user EXCEPT !.balance = Row(table, s.uid).balance
                                           + (s.user.balance - s.loaded.balance)],
              Dirty(s))

\* INSERT of a new object, else UPDATE of the changed columns, line 123
Flush(table, s) ==
  IF s.pending THEN Insert(table, s.user)
  ELSE IF Dirty(s) = {} THEN table
  ELSE Update(table, s.uid, s.user, Dirty(s))

\* the balance is written although the commit raises
RollbackPartial(table, s) ==
  IF Exists(table, s.uid) THEN Update(table, s.uid, s.user, {"balance"})
  ELSE Insert(table, s.user)

\* a commit that raises leaves the transaction rolled back
Rollback(table, s) == table

SessionCommit(t) ==
  LET s == sess[t]
  IN  /\ pc[t] = "commit"
      /\ IF FlushOk(db, s)
         THEN /\ db' = Flush(db, s)
              /\ pc' = [pc EXCEPT ![t] = "committed"]
              /\ granted' = IF s.kind = "daily"
                            THEN [i \in UserIds |->
                                    IF str(i) = s.uid THEN granted[i] + DAILY_REWARD
                                    ELSE granted[i]]
                            ELSE granted
         ELSE /\ db' = Rollback(db, s)
              /\ pc' = [pc EXCEPT ![t] = "failed"]
              /\ UNCHANGED granted
      /\ UNCHANGED <<clock, DAILY_REWARD, sess, started>>

\* the exception of a failing commit is swallowed and the handler goes on
SessionCommitSwallowed(t) ==
  /\ pc[t] = "commit"
  /\ db' = Rollback(db, sess[t])
  /\ pc' = [pc EXCEPT ![t] = "committed"]
  /\ UNCHANGED <<clock, DAILY_REWARD, sess, granted, started>>

\* the storage layer fails (I/O error, database locked): commit raises
SessionCommitFails(t) ==
  /\ pc[t] = "commit"
  /\ db' = Rollback(db, sess[t])
  /\ pc' = [pc EXCEPT ![t] = "failed"]
  /\ UNCHANGED <<clock, DAILY_REWARD, sess, granted, started>>

\* interaction.response.send_message after the commit
Send(t, kind, m) ==
  /\ pc[t] = "committed" /\ sess[t].kind = kind
  /\ sess' = [sess EXCEPT ![t].msg = m]
  /\ pc' = [pc EXCEPT ![t] = "done"]
  /\ UNCHANGED <<db, clock, DAILY_REWARD, granted, started>>

DailySend(t) ==
  Send(t, "daily", [NoMsg EXCEPT !.kind = "daily", !.amount = DAILY_REWARD,
                                 !.balance = sess[t].user.balance])

BalanceSend(t) ==
  Send(t, "balance", [NoMsg EXCEPT !.kind = "balance",
                                   !.balance = sess[t].user.balance])

RollSend(t) ==
  Send(t, "roll", [NoMsg EXCEPT !.kind = "roll", !.amount = sess[t].winnings,
                                !.balance = sess[t].user.balance])

\* leaving "async with": the session is closed, uncommitted work discarded
Close(t) ==
  /\ pc[t] \in {"done", "failed"}
  /\ pc' = [pc EXCEPT ![t] = "idle"]
  /\ sess' = [sess EXCEPT ![t] = IdleSess]
  /\ UNCHANGED <<db, clock, DAILY_REWARD, granted, started>>

\* ------------------------------------------------------------- behaviours
Faces == DieMin..DieMax      \* random.randint(1, 6)

Begin(t, ids, amts) ==
  \/ \E i \in ids : DailyGetUser(t, i)
  \/ \E i \in ids : BalanceGetUser(t, i)
  \/ \E i \in ids, amt \in amts : RollGetUser(t, i, amt)

Step(t, faces) ==
  \/ DailyClaim(t)
  \/ RollBet(t, faces)
  \/ SessionCommit(t)
  \/ SessionCommitFails(t)
  \/ DailySend(t)
  \/ BalanceSend(t)
  \/ RollSend(t)
  \/ Close(t)

\* commands one after the other: a command starts when none is running
Next ==
  \E t \in {1} :
     \/ AllIdle /\ started < MaxCommands /\ Begin(t, UserIds, Amounts)
     \/ Step(t, Faces)

Spec == Init /\ [][Next]_vars

\* commands interleaved by the event loop at their suspension points, all on
\* one account; the stake texts and dice are a subset that still gives every
\* outcome
OverlapUserIds == {7}
OverlapAmounts == { <<"a","l","l">>, <<"a","b">>, <<"1">> }
OverlapFaces == {DieMin, DieMax}

NextConc ==
  \E t \in Tasks :
     \/ started < MaxOverlap /\ Begin(t, OverlapUserIds, OverlapAmounts)
     \/ Step(t, OverlapFaces)

SpecConc == Init /\ [][NextConc]_vars

\* ------------------------------------------------------------ properties
Running(t) == pc[t] \notin {"idle", "fetched"}
Is(t, kind) == sess[t].kind = kind /\ Running(t)
Cooldown(t) == pc[t] = "done" /\ sess[t].msg.kind = "cooldown"
CalendarDay(time) == time \div DAY

\* C1: with a non-negative reward, the committed balance of every account is
\* >= 0 after every step of every sequence of roll, daily and balance commands
C1_BalanceNonNegative ==
  \A k \in 1..Len(db) : db[k].balance >= 0

\* a stake of the whole positive balance was lost, leaving exactly 0
C1_Witness ==
  \E t \in Tasks :
     /\ Is(t, "roll") /\ pc[t] = "committed" /\ sess[t].result = "lost"
     /\ sess[t].loaded.balance > 0
     /\ Row(db, sess[t].uid).balance = 0

\* C2: a roll that passed validation with stake s commits the balance it read
\* plus the net change, which is +s when the player's die is higher, -s when
\* it is lower and 0 when the dice are equal
C2_ZeroSumWager ==
  \A t \in Tasks :
     Is(t, "roll") /\ pc[t] = "committed" =>
        LET s == sess[t]
            net == IF s.user_roll > s.bot_roll THEN s.bet_amount
                   ELSE IF s.user_roll < s.bot_roll THEN 0 - s.bet_amount
                   ELSE 0
        IN  /\ s.bet_amount > 0
            /\ s.winnings = net
            /\ s.result = (IF net > 0 THEN "won" ELSE IF net < 0 THEN "lost" ELSE "tied")
            /\ Row(db, s.uid).balance = s.loaded.balance + net

\* a won roll whose stake is part of the balance has been committed
C2_Witness ==
  \E t \in Tasks :
     /\ Is(t, "roll") /\ pc[t] = "committed" /\ sess[t].result = "won"
     /\ sess[t].bet_amount < sess[t].loaded.balance
     /\ Row(db, sess[t].uid).balance = sess[t].loaded.balance + sess[t].bet_amount

\* C3: a daily claim at time now passes the cooldown check if and only if
\* last_daily is absent or now - last_daily >= 24 hours; once its commit is
\* done, balance and total_earned are each up by the reward and last_daily
\* is now
C3_ClaimEligibility ==
  \A t \in Tasks :
     Is(t, "daily") =>
        LET s == sess[t]
            eligible == s.loaded.last_daily = None \/ s.now - s.loaded.last_daily >= DAY
        IN  /\ eligible <=> ~Cooldown(t)
            /\ pc[t] = "committed" \/ (pc[t] = "done" /\ ~Cooldown(t)) =>
                 /\ Row(db, s.uid).balance = s.loaded.balance + DAILY_REWARD
                 /\ Row(db, s.uid).total_earned = s.loaded.total_earned + DAILY_REWARD
                 /\ Row(db, s.uid).last_daily = s.now
                 /\ s.now \in TimePoints

\* a second claim exactly 24 hours after the first has been granted
C3_Witness ==
  \E t \in Tasks :
     /\ Is(t, "daily") /\ pc[t] = "committed"
     /\ sess[t].loaded.last_daily # None
     /\ sess[t].now = sess[t].loaded.last_daily + DAY
     /\ Row(db, sess[t].uid).total_earned = 2 * DAILY_REWARD
     /\ DAILY_REWARD > 0

\* C4: a claim at a time t with T0 <= t < T0 + 24h, T0 being the last_daily
\* a successful claim left, is rejected as on cooldown, and leaves balance,
\* total_earned and last_daily as they were
C4_IdempotentUntilEligible ==
  \A t \in Tasks :
     LET s == sess[t]
     IN  /\ Is(t, "daily")
         /\ s.loaded.last_daily # None
         /\ s.loaded.last_daily <= s.now /\ s.now < s.loaded.last_daily + DAY
         => /\ Cooldown(t)
            /\ s.user = s.loaded
            /\ Rows(db, s.uid) = <<s.loaded>>

\* C5: total_earned of an account is the sum of the rewards its successful
\* claims granted
C5_TotalEarned ==
  \A i \in UserIds :
     IF Exists(db, str(i)) THEN Row(db, str(i)).total_earned = granted[i]
     ELSE granted[i] = 0

\* two claims were granted and a roll in between changed the balance only
C5_Witness ==
  \E i \in UserIds :
     /\ Exists(db, str(i))
     /\ Row(db, str(i)).total_earned = 2 /\ DAILY_REWARD = 1
     /\ Row(db, str(i)).balance = 3

\* C6: a balance command for a user without a record reports 0 and leaves a
\* record with balance 0, total_earned 0 and no last_daily
C6_NewAccountDefaults ==
  \A t \in Tasks :
     Is(t, "balance") /\ sess[t].fresh /\ pc[t] = "done" =>
        /\ sess[t].msg.kind = "balance" /\ sess[t].msg.balance = 0
        /\ Rows(db, sess[t].uid) = <<User(sess[t].uid)>>

\* the second user's first command is a balance command
C6_Witness ==
  \E t \in Tasks :
     /\ Is(t, "balance") /\ sess[t].fresh /\ pc[t] = "done"
     /\ Len(db) = 2 /\ db[2].user_id = sess[t].uid

\* C7: a roll is classified by the first failing check: not an integer and
\* not 'all' is InvalidStake, a resolved stake <= 0 is NonPositiveStake, a
\* resolved stake above the balance is InsufficientFunds; dice are rolled
\* only for a stake that passes all three
C7_ValidationOrder ==
  \A t \in Tasks :
     Is(t, "roll") =>
        LET s == sess[t]
            isAll == lower(s.amount) = <<"a","l","l">>
            stake == IF isAll THEN s.loaded.balance ELSE int(s.amount)
            class == IF ~isAll /\ ~IntOk(s.amount) THEN "invalid"
                     ELSE IF stake <= 0 THEN "nonpositive"
                     ELSE IF stake > s.loaded.balance THEN "insufficient"
                     ELSE "ok"
        IN  IF class = "ok"
            THEN /\ s.user_roll \in Faces /\ s.bot_roll \in Faces
                 /\ s.bet_amount = stake
                 /\ s.msg.kind \in {"none", "roll"}
            ELSE /\ pc[t] = "done" /\ s.msg.kind = class
                 /\ s.user_roll = 0 /\ s.bot_roll = 0 /\ s.result = "none"
                 /\ s.user = s.loaded

\* 'all' on an account whose balance is 0 was rejected as non-positive
C7_Witness ==
  \E t \in Tasks :
     /\ Is(t, "roll") /\ pc[t] = "done"
     /\ sess[t].amount = <<"A","L","L">> /\ ~sess[t].fresh
     /\ sess[t].loaded.balance = 0 /\ sess[t].loaded.total_earned > 0
     /\ sess[t].msg.kind = "nonpositive"

\* the first claim was granted and a second claim at the same clock reading
\* was rejected
C4_Witness ==
  \E t \in Tasks :
     /\ Is(t, "daily") /\ Cooldown(t)
     /\ sess[t].now = sess[t].loaded.last_daily
     /\ sess[t].loaded.total_earned = DAILY_REWARD /\ DAILY_REWARD > 0

Account(table, uid) == IF Exists(table, uid) THEN Row(table, uid) ELSE User(uid)

C9_FailedCommitUnchanged ==
  \A t \in Tasks :
     pc[t] = "failed" =>
        Rows(db, sess[t].uid) = IF sess[t].fresh THEN <<>> ELSE <<sess[t].loaded>>

\* the commit of a lost roll failed
C9_Witness ==
  \E t \in Tasks :
     /\ pc[t] = "failed" /\ sess[t].kind = "roll" /\ sess[t].result = "lost"
     /\ Row(db, sess[t].uid).balance = sess[t].user.balance + sess[t].bet_amount

\* C10 as claimed: a claim on a later calendar day than last_daily passes the
\* cooldown check, however little time has elapsed
C10_CalendarDayGrant ==
  \A t \in Tasks :
     /\ Is(t, "daily") /\ sess[t].loaded.last_daily # None
     /\ CalendarDay(sess[t].now) > CalendarDay(sess[t].loaded.last_daily)
     => ~Cooldown(t)

\* C10 amended: a claim on the calendar day after last_daily but less than 24
\* hours after it is rejected as on cooldown and changes nothing
C10_ElapsedDayCheck ==
  \A t \in Tasks :
     /\ Is(t, "daily") /\ sess[t].loaded.last_daily # None
     /\ CalendarDay(sess[t].now) = CalendarDay(sess[t].loaded.last_daily) + 1
     /\ sess[t].now - sess[t].loaded.last_daily < DAY
     => /\ Cooldown(t)
        /\ Rows(db, sess[t].uid) = <<sess[t].loaded>>

\* a claim at 00:01 after a granted claim at 23:59 the day before was rejected
C10_Witness ==
  \E t \in Tasks :
     /\ Is(t, "daily") /\ Cooldown(t)
     /\ sess[t].loaded.last_daily = DAY - 60 /\ sess[t].now = DAY + 60
     /\ sess[t].loaded.total_earned = DAILY_REWARD

\* C11: the wait a rejected claim reports is R = (last_daily + 24h) - now as
\* whole hours and whole minutes of R, so that
\* hours*3600 + minutes*60 <= R < hours*3600 + minutes*60 + 60, for every now
\* of the cooldown window, now = last_daily (R = 24h) included
C11_RemainingWait ==
  \A t \in Tasks :
     Is(t, "daily") /\ Cooldown(t) =>
        LET R == (sess[t].loaded.last_daily + DAY) - sess[t].now
            m == sess[t].msg
        IN  /\ m.hours = R \div HOUR
            /\ m.minutes = (R % HOUR) \div MINUTE
            /\ m.hours * HOUR + m.minutes * MINUTE <= R
            /\ R < m.hours * HOUR + m.minutes * MINUTE + MINUTE

\* the net change a command reports: the reward of a claim, the winnings of a roll
Net(s) == IF s.kind = "daily" THEN DAILY_REWARD
          ELSE IF s.kind = "roll" THEN s.winnings ELSE 0

Reported(t) == pc[t] = "done" /\ sess[t].msg.kind \in {"daily", "roll"}

\* C12: nothing serializes the commands of one account: the commit of a claim
\* or roll with a net change stores the balance the command read plus its own
\* net change, whatever was committed since it read, so of two overlapping
\* commands only the later commit's net change is in the final balance
C12_LostUpdate ==
  [][ \A t \in Tasks :
         /\ pc[t] = "commit" /\ pc'[t] = "committed"
         /\ sess[t].kind \in {"daily", "roll"} /\ Net(sess[t]) # 0
         => /\ Exists(db', sess[t].uid)
            /\ Row(db', sess[t].uid).balance = sess[t].loaded.balance + Net(sess[t])
    ]_vars

\* a claim and a roll of one user read the same record, both committed and
\* both reported, and the committed balance holds the net change of one only
C12_Witness ==
  \E t \in Tasks, o \in Tasks :
     /\ Reported(t) /\ sess[t].kind = "daily"
     /\ Reported(o) /\ sess[o].kind = "roll"
     /\ sess[t].uid = sess[o].uid /\ sess[t].loaded = sess[o].loaded
     /\ ~sess[t].fresh
     /\ Net(sess[t]) # 0 /\ Net(sess[o]) # 0
     /\ Row(db, sess[t].uid).balance
          # sess[t].loaded.balance + Net(sess[t]) + Net(sess[o])
     /\ Row(db, sess[t].uid).balance \in
          {sess[t].loaded.balance + Net(sess[t]), sess[o].loaded.balance + Net(sess[o])}

\* the committed record of the account a command is about, as the command
\* found it: absent for a new user, the row it loaded otherwise
AsFound(t) == IF sess[t].fresh THEN <<>> ELSE <<sess[t].loaded>>

\* C13: a roll, whatever its stake and outcome, leaves total_earned and
\* last_daily of the account as they were before the command
C13_WagerKeepsRewardState ==
  \A t \in Tasks :
     Is(t, "roll") =>
        /\ sess[t].user.total_earned = sess[t].loaded.total_earned
        /\ sess[t].user.last_daily = sess[t].loaded.last_daily
        /\ Len(Rows(db, sess[t].uid)) = Len(AsFound(t))
        /\ ~sess[t].fresh =>
             /\ Row(db, sess[t].uid).total_earned = sess[t].loaded.total_earned
             /\ Row(db, sess[t].uid).last_daily = sess[t].loaded.last_daily

\* a won roll was committed on an account that has claimed a reward
C13_Witness ==
  \E t \in Tasks :
     /\ Is(t, "roll") /\ pc[t] = "done" /\ sess[t].result = "won"
     /\ sess[t].loaded.total_earned > 0
     /\ Row(db, sess[t].uid).balance = sess[t].loaded.balance + sess[t].winnings
     /\ Row(db, sess[t].uid).total_earned = sess[t].loaded.total_earned

\* C14: after any command for a user id without a record is done, a roll
\* rejected by validation included, the store has a record for that user id
C14_LazyCreation ==
  \A t \in Tasks :
     Running(t) /\ sess[t].fresh /\ pc[t] = "done" => Exists(db, sess[t].uid)

\* the class of a roll's stake, from the stake text and the balance read
StakeClass(s) ==
  LET isAll == lower(s.amount) = <<"a","l","l">>
      stake == IF isAll THEN s.loaded.balance ELSE int(s.amount)
  IN  IF ~isAll /\ ~IntOk(s.amount) THEN "invalid"
      ELSE IF stake <= 0 THEN "nonpositive"
      ELSE IF stake > s.loaded.balance THEN "insufficient"
      ELSE "ok"

\* C15: a roll whose stake fails a validation check never reaches the commit,
\* and the committed record of the account stays as the command found it
C15_RejectedBetChangesNothing ==
  \A t \in Tasks :
     Is(t, "roll") /\ StakeClass(sess[t]) # "ok" =>
        /\ pc[t] = "done"
        /\ Rows(db, sess[t].uid) = AsFound(t)

\* a stake above the balance of an existing account was rejected
C15_Witness ==
  \E t \in Tasks :
     /\ Is(t, "roll") /\ sess[t].msg.kind = "insufficient"
     /\ ~sess[t].fresh /\ sess[t].loaded.balance > 0
     /\ Rows(db, sess[t].uid) = <<sess[t].loaded>>

\* C16: however claims and rolls of one user overlap between fetch and
\* commit, with a reward >= 0 no committed balance is negative, and neither
\* is the balance any command is about to commit
C16_NonNegativeInterleaved ==
  /\ \A k \in 1..Len(db) : db[k].balance >= 0
  /\ \A t \in Tasks : pc[t] # "idle" => sess[t].user.balance >= 0

\* two rolls read the same positive balance, and both lost and committed a
\* stake that together exceed it
C16_Witness ==
  \E t \in Tasks, o \in Tasks :
     /\ t # o /\ sess[t].uid = sess[o].uid
     /\ sess[t].kind = "roll" /\ pc[t] \in {"committed", "done"} /\ sess[t].result = "lost"
     /\ sess[o].kind = "roll" /\ pc[o] \in {"committed", "done"} /\ sess[o].result = "lost"
     /\ sess[t].loaded = sess[o].loaded
     /\ sess[t].bet_amount + sess[o].bet_amount > sess[t].loaded.balance
     /\ Row(db, sess[t].uid).balance = 0

\* C17: in a sequential run with a non-decreasing clock, last_daily of an
\* account never decreases, and it changes only to a claim time at least 24
\* hours after the claim time it held: successful claims are >= 24h apart
C17_ClaimsSpaced ==
  [][ \A i \in UserIds :
         LET old == Account(db, str(i)).last_daily
             new == Account(db', str(i)).last_daily
         IN  /\ new >= old
             /\ new # old => /\ new \in TimePoints
                             /\ old # None => new - old >= DAY
    ]_vars

\* a second claim was granted 24 hours and one second after the first
C17_Witness ==
  \E t \in Tasks :
     /\ Reported(t) /\ sess[t].kind = "daily"
     /\ sess[t].loaded.last_daily = 59 /\ sess[t].now = DAY + 60
     /\ Row(db, sess[t].uid).last_daily = DAY + 60

\* C18: the store never holds two records with one user_id; a commit whose
\* staged insert meets a record committed meanwhile for that user_id fails and
\* leaves the store as it is
C18_OneRecordPerUser ==
  [][ /\ \A i \in UserIds : Len(Rows(db', str(i))) <= 1
      /\ \A t \in Tasks :
           /\ pc[t] = "commit" /\ pc'[t] # "commit"
           /\ sess[t].pending /\ Exists(db, sess[t].uid)
           => pc'[t] = "failed" /\ db' = db
    ]_vars

\* two commands staged an insert for the same new user; one committed it and
\* the commit of the other failed
C18_Witness ==
  \E t \in Tasks, o \in Tasks :
     /\ t # o /\ sess[t].uid = sess[o].uid
     /\ sess[t].pending /\ sess[o].pending
     /\ pc[t] \in {"committed", "done"} /\ pc[o] = "failed"
     /\ sess[t].kind = "daily" /\ sess[o].kind = "daily"
     /\ sess[o].now > sess[t].now
     /\ Rows(db, sess[t].uid) = <<sess[t].user>>

\* C19: a reward or bet result is reported only after the command's commit
\* is done, with the balance that is in the committed store; before the
\* commit and after a failed commit nothing has been sent
C19_ResponseFollowsCommit ==
  \A t \in Tasks :
     /\ sess[t].msg.kind \in {"daily", "roll"} =>
          /\ pc[t] = "done"
          /\ Rows(db, sess[t].uid) = <<sess[t].user>>
          /\ sess[t].msg.balance = Row(db, sess[t].uid).balance
          /\ sess[t].msg.amount = Net(sess[t])
     /\ pc[t] \in {"commit", "committed", "failed"} => sess[t].msg = NoMsg

\* a lost roll was reported with the new balance, which is the committed one
C19_Witness ==
  \E t \in Tasks :
     /\ Reported(t) /\ sess[t].kind = "roll" /\ sess[t].result = "lost"
     /\ sess[t].msg.balance = sess[t].loaded.balance - sess[t].bet_amount
     /\ Row(db, sess[t].uid).balance = sess[t].msg.balance
     /\ sess[t].msg.balance > 0
====
